---- MODULE Spec2Model ----
(***************************************************************************)
(* A model of the hotel price scraper (src/scraper.py) and the room        *)
(* discovery script (src/discovery_room.py).                               *)
(*                                                                         *)
(* Text is modelled as a sequence of one-character strings, so that        *)
(* lower(), substring search, brace scanning and JSON decoding are         *)
(* computed character by character as the code computes them.             *)
(* Wall-clock time is an integer number of ticks of 0.1 s, the resolution  *)
(* of the shortest sleep in the code.                                      *)
(***************************************************************************)
EXTENDS Integers, Sequences, FiniteSets, TLC

VARIABLES
    \* ---- the SessionManager object and the clock
    now,             \* the wall clock, in ticks
    session,         \* the fields of the SessionManager object
    n_sessions,      \* history: how many times SessionManager.__init__ has run
    op,              \* history: the SessionManager method that ran last, and what it returned
    \* ---- scrape_hotel_prices
    pc,              \* where the function is
    hotel_profile,   \* argument: the HotelProfile
    start_date,      \* argument
    num_days,        \* argument num_days_to_scrape
    urls_and_dates,  \* the planned (url, date) list
    idx,             \* the for loop's index, from 1
    all_daily_rates, \* the list of recorded DailyRate dicts
    result,          \* the CrawlResult of the page load awaited last
    browser_open,    \* how many AsyncWebCrawler contexts are open
    files,           \* the files written, name to content
    returned,        \* the value the function returned
    \* ---- history of the run
    calls,           \* how often increment_request, crawler.arun on a date URL, and warm-up ran
    begin,           \* what the rotation check at the top of the current iteration saw and did
    load,            \* the page load issued last: date index, session used, outcome
    prev_load,       \* the page load before that one
    date_hist,       \* the date in progress: page loads so far and their outcomes
    done_date,       \* the same record for the date completed last
    failed_in_row,   \* consecutive page loads that ended in the failure branch
    \* ---- the navigation plans on their own
    window,          \* the (start, count, interval) a plan is computed for
    plans,           \* the pricing and the discovery plan computed for it
    \* ---- extract_first_json_object on its own
    raw_text,        \* argument `text`
    extracted,       \* what the function returned for it
    \* ---- discover_hotel_rooms
    disc_pc,         \* where the function is
    sample_replies,  \* history: the extraction text of every sample so far
    sample_no,       \* the for loop's day_offset, plus one
    discovered_rooms,\* the set of room names
    profile          \* the HotelProfile built at the end

sm_vars == <<now, session, n_sessions, op>>
run_vars == <<pc, hotel_profile, start_date, num_days, urls_and_dates, idx, all_daily_rates,
              result, browser_open, files, returned>>
hist_vars == <<calls, begin, load, prev_load, date_hist, done_date, failed_in_row>>
plan_vars == <<window, plans>>
json_vars == <<raw_text, extracted>>
disc_vars == <<disc_pc, sample_replies, sample_no, discovered_rooms, profile>>
vars == <<sm_vars, run_vars, hist_vars, plan_vars, json_vars, disc_vars>>

(***************************************************************************)
(* Bounds of the model.                                                    *)
(***************************************************************************)
MaxDraws == 2           \* samples of a session's random draws (session manager alone)
MaxSessions == 2        \* sessions created (session manager alone)
MaxRequests == 11       \* request_count cap (session manager alone)
Margin == 1             \* ticks explored on each side of the time limit

TicksPerSecond == 10

Min(S) == CHOOSE x \in S : \A y \in S : x <= y
Max(S) == CHOOSE x \in S : \A y \in S : x >= y

(***************************************************************************)
(* Fingerprint catalogs.                                                   *)
(***************************************************************************)
user_agents ==
    << "Mozilla/5.0 (Windows NT 10.0; Win64; x64) AppleWebKit/537.36 (KHTML, like Gecko) Chrome/120.0.0.0 Safari/537.36",
       "Mozilla/5.0 (Windows NT 10.0; Win64; x64) AppleWebKit/537.36 (KHTML, like Gecko) Chrome/119.0.0.0 Safari/537.36",
       "Mozilla/5.0 (Macintosh; Intel Mac OS X 10_15_7) AppleWebKit/537.36 (KHTML, like Gecko) Chrome/120.0.0.0 Safari/537.36",
       "Mozilla/5.0 (Macintosh; Intel Mac OS X 10_15_7) AppleWebKit/537.36 (KHTML, like Gecko) Chrome/119.0.0.0 Safari/537.36",
       "Mozilla/5.0 (Windows NT 10.0; Win64; x64; rv:121.0) Gecko/20100101 Firefox/121.0",
       "Mozilla/5.0 (Windows NT 10.0; Win64; x64; rv:120.0) Gecko/20100101 Firefox/120.0",
       "Mozilla/5.0 (Macintosh; Intel Mac OS X 10.15; rv:121.0) Gecko/20100101 Firefox/121.0",
       "Mozilla/5.0 (Macintosh; Intel Mac OS X 10.15; rv:120.0) Gecko/20100101 Firefox/120.0",
       "Mozilla/5.0 (Macintosh; Intel Mac OS X 10_15_7) AppleWebKit/605.1.15 (KHTML, like Gecko) Version/17.2 Safari/605.1.15",
       "Mozilla/5.0 (Macintosh; Intel Mac OS X 10_15_7) AppleWebKit/605.1.15 (KHTML, like Gecko) Version/17.1 Safari/605.1.15",
       "Mozilla/5.0 (Windows NT 10.0; Win64; x64) AppleWebKit/537.36 (KHTML, like Gecko) Chrome/120.0.0.0 Safari/537.36 Edg/120.0.0.0" >>

viewports ==
    << [width |-> 1920, height |-> 1080],
       [width |-> 1366, height |-> 768],
       [width |-> 1440, height |-> 900],
       [width |-> 1536, height |-> 864],
       [width |-> 1280, height |-> 720],
       [width |-> 1600, height |-> 900],
       [width |-> 2560, height |-> 1440] >>

\* The random draws of one __init__: random.randint(1000, 9999),
\* random.choice(user_agents) and random.choice(viewports).  Sample i takes
\* the i-th value of each range.
Draw(i) == [ r  |-> 1000 + (i - 1),
             ua |-> user_agents[((i - 1) % Len(user_agents)) + 1],
             vp |-> viewports[((i - 1) % Len(viewports)) + 1] ]

(***************************************************************************)
(* SessionManager.                                                         *)
(***************************************************************************)
request_limit == 10
time_limit == 20 * 60       \* seconds

\* time.time() is the clock in seconds; int(time.time()) drops the fraction.
int_time(t) == t \div TicksPerSecond

\* SessionManager.__init__ at clock t, with its three random draws.
SessionManager_init(t, r, ua, vp) ==
    [ session_id    |-> <<"session", int_time(t), r>>,
      user_agent    |-> ua,
      viewport      |-> vp,
      request_count |-> 0,
      start_time    |-> t ]

\* Every object __init__ can build at clock t from the first n samples of
\* its draws.
NewSessions(t, n) ==
    { SessionManager_init(t, Draw(i).r, Draw(i).ua, Draw(i).vp) : i \in 1..n }

should_rotate_session_count_only(s, t) ==
    s.request_count >= request_limit

should_rotate_session_gt(s, t) ==
    \/ s.request_count > request_limit
    \/ (t - s.start_time) > time_limit * TicksPerSecond

should_rotate_session(s, t) ==
    \/ s.request_count >= request_limit
    \/ (t - s.start_time) >= time_limit * TicksPerSecond

increment_request_resetting(s) == [s EXCEPT !.request_count = 1]

increment_request(s) == [s EXCEPT !.request_count = @ + 1]

\* op when no SessionManager method ran last
NoOp == [name |-> "none", ret |-> FALSE]

\* rotate_session: cleanup_browser_data() only prints; self.__init__() redraws
\* every field.  The result is any object __init__ can build at clock t.
rotate_session_keep_count(s, t, n) ==
    { [x EXCEPT !.request_count = s.request_count] : x \in NewSessions(t, n) }

rotate_session(s, t, n) == NewSessions(t, n)

(***************************************************************************)
(* Text: sequences of one-character strings.                               *)
(***************************************************************************)
UpperCase == <<"A","B","C","D","E","F","G","H","I","J","K","L","M",
               "N","O","P","Q","R","S","T","U","V","W","X","Y","Z">>
LowerCase == <<"a","b","c","d","e","f","g","h","i","j","k","l","m",
               "n","o","p","q","r","s","t","u","v","w","x","y","z">>

\* str.lower() on one character (ASCII letters)
ToLower ==
    [ c \in { UpperCase[i] : i \in 1..Len(UpperCase) } |->
        LowerCase[CHOOSE i \in 1..Len(UpperCase) : UpperCase[i] = c] ]

lower_char(c) == IF c \in DOMAIN ToLower THEN ToLower[c] ELSE c

\* str.lower()
RECURSIVE lower(_)
lower(text) ==
    IF Len(text) = 0 THEN <<>>
    ELSE IF Len(text) = 1 THEN <<lower_char(text[1])>>
    ELSE LET mid == Len(text) \div 2
         IN  lower(SubSeq(text, 1, mid)) \o lower(SubSeq(text, mid + 1, Len(text)))

\* the Python test `sub in text`
Contains(text, sub) ==
    \/ sub = <<>>
    \/ \E i \in 1..(Len(text) - Len(sub) + 1) :
         /\ text[i] = sub[1]
         /\ SubSeq(text, i, i + Len(sub) - 1) = sub

Whitespace == {" ", "\n", "\t", "\r"}

\* str.strip()
strip(text) ==
    LET keep == { i \in 1..Len(text) : text[i] \notin Whitespace }
    IN  IF keep = {} THEN <<>> ELSE SubSeq(text, Min(keep), Max(keep))

\* Optional[str]
None == [is_none |-> TRUE, value |-> <<>>]
Some(v) == [is_none |-> FALSE, value |-> v]

\* extracted before extract_first_json_object has been called
NotCalled == [called |-> FALSE, ret |-> None]

(***************************************************************************)
(* extract_first_json_object.  extract_step is one iteration of the loop   *)
(* over the characters of s, at index i, on the loop's locals; ret is the  *)
(* value returned from inside the loop, None while the loop is running.    *)
(* start = 0 stands for -1.  extract_loop runs the iterations lo..hi in    *)
(* order.                                                                  *)
(***************************************************************************)
extract_step_last_open(s, i, st) ==
    IF ~st.ret.is_none THEN st
    ELSE
      LET ch == s[i] IN
      IF ch = "\\" /\ ~st.escape
      THEN [st EXCEPT !.escape = TRUE]
      ELSE
        LET in_string2 == IF ch = "\"" /\ ~st.escape THEN ~st.in_string ELSE st.in_string
            opens  == ~in_string2 /\ ch = "{"
            closes == ~in_string2 /\ ch = "}" /\ st.brace_count > 0
            start2 == IF opens THEN i ELSE st.start
            count2 == IF opens THEN st.brace_count + 1
                      ELSE IF closes THEN st.brace_count - 1
                      ELSE st.brace_count
        IN  [ start       |-> start2,
              brace_count |-> count2,
              in_string   |-> in_string2,
              escape      |-> FALSE,
              ret         |-> IF closes /\ count2 = 0 /\ start2 # 0
                              THEN Some(SubSeq(s, start2, i))
                              ELSE None ]

extract_step_no_escape(s, i, st) ==
    IF ~st.ret.is_none THEN st
    ELSE
      LET ch == s[i]
          in_string2 == IF ch = "\"" THEN ~st.in_string ELSE st.in_string
          opens  == ~in_string2 /\ ch = "{"
          closes == ~in_string2 /\ ch = "}" /\ st.brace_count > 0
          start2 == IF opens /\ st.brace_count = 0 THEN i ELSE st.start
          count2 == IF opens THEN st.brace_count + 1
                    ELSE IF closes THEN st.brace_count - 1
                    ELSE st.brace_count
      IN  [ start       |-> start2,
            brace_count |-> count2,
            in_string   |-> in_string2,
            escape      |-> FALSE,
            ret         |-> IF closes /\ count2 = 0 /\ start2 # 0
                            THEN Some(SubSeq(s, start2, i))
                            ELSE None ]

extract_step(s, i, st) ==
    IF ~st.ret.is_none THEN st
    ELSE
      LET ch == s[i] IN
      IF ch = "\\" /\ ~st.escape
      THEN [st EXCEPT !.escape = TRUE]
      ELSE
        LET in_string2 == IF ch = "\"" /\ ~st.escape THEN ~st.in_string ELSE st.in_string
            opens  == ~in_string2 /\ ch = "{"
            closes == ~in_string2 /\ ch = "}" /\ st.brace_count > 0
            start2 == IF opens /\ st.brace_count = 0 THEN i ELSE st.start
            count2 == IF opens THEN st.brace_count + 1
                      ELSE IF closes THEN st.brace_count - 1
                      ELSE st.brace_count
        IN  [ start       |-> start2,
              brace_count |-> count2,
              in_string   |-> in_string2,
              escape      |-> FALSE,
              ret         |-> IF closes /\ count2 = 0 /\ start2 # 0
                              THEN Some(SubSeq(s, start2, i))
                              ELSE None ]

RECURSIVE extract_loop(_, _, _, _)
extract_loop(s, lo, hi, st) ==
    IF lo > hi THEN st
    ELSE IF lo = hi THEN extract_step(s, lo, st)
    ELSE LET mid == (lo + hi) \div 2
             st2 == extract_loop(s, lo, mid, st)
         IN  IF st2.ret.is_none THEN extract_loop(s, mid + 1, hi, st2) ELSE st2

extract_first_json_object(text) ==
    IF text = <<>> THEN None
    ELSE LET s == strip(text)
         IN  extract_loop(s, 1, Len(s),
                          [ start |-> 0, brace_count |-> 0, in_string |-> FALSE,
                            escape |-> FALSE, ret |-> None ]).ret

(***************************************************************************)
(* json.loads, for the JSON the model's texts use: objects, arrays,        *)
(* strings with backslash escapes, integers and the three literals.        *)
(* A decoded value is [t, v]: t the JSON type, v its characters (str, num, *)
(* lit), its items (arr) or its members in text order (obj).               *)
(***************************************************************************)
Digits == <<"0","1","2","3","4","5","6","7","8","9">>
IsDigit(c) == \E i \in 1..Len(Digits) : Digits[i] = c

JsonFail == [ok |-> FALSE, val |-> <<>>, pos |-> 0]
JsonOk(v, p) == [ok |-> TRUE, val |-> v, pos |-> p]

RECURSIVE skip_ws(_, _)
skip_ws(s, i) ==
    IF i <= Len(s) /\ s[i] \in Whitespace THEN skip_ws(s, i + 1) ELSE i

\* The characters of a string literal whose opening quote is before index i.
RECURSIVE scan_string(_, _, _)
scan_string(s, i, acc) ==
    IF i > Len(s) THEN JsonFail
    ELSE IF s[i] = "\"" THEN JsonOk([t |-> "str", v |-> acc], i + 1)
    ELSE IF s[i] = "\\" THEN
        IF i + 1 > Len(s) THEN JsonFail
        ELSE IF s[i + 1] \in {"\"", "\\", "/"} THEN scan_string(s, i + 2, Append(acc, s[i + 1]))
        ELSE IF s[i + 1] = "n" THEN scan_string(s, i + 2, Append(acc, "\n"))
        ELSE IF s[i + 1] = "t" THEN scan_string(s, i + 2, Append(acc, "\t"))
        ELSE IF s[i + 1] = "r" THEN scan_string(s, i + 2, Append(acc, "\r"))
        ELSE JsonFail
    ELSE IF s[i] \in {"\n", "\t", "\r"} THEN JsonFail
    ELSE scan_string(s, i + 1, Append(acc, s[i]))

RECURSIVE scan_digits(_, _)
scan_digits(s, i) ==
    IF i <= Len(s) /\ IsDigit(s[i]) THEN scan_digits(s, i + 1) ELSE i

scan_number(s, i) ==
    LET first == IF s[i] = "-" THEN i + 1 ELSE i
        last  == scan_digits(s, first)
    IN  IF last = first \/ (last - first > 1 /\ s[first] = "0") THEN JsonFail
        ELSE JsonOk([t |-> "num", v |-> SubSeq(s, i, last - 1)], last)

scan_literal(s, i, word) ==
    IF i + Len(word) - 1 <= Len(s) /\ SubSeq(s, i, i + Len(word) - 1) = word
    THEN JsonOk([t |-> "lit", v |-> word], i + Len(word))
    ELSE JsonFail

RECURSIVE scan_value(_, _)
RECURSIVE scan_items(_, _, _)
RECURSIVE scan_members(_, _, _)

\* The items of an array after "[" or after a comma.
scan_items(s, i, acc) ==
    LET item == scan_value(s, skip_ws(s, i)) IN
    IF ~item.ok THEN JsonFail
    ELSE
      LET j == skip_ws(s, item.pos)
          acc2 == Append(acc, item.val)
      IN  IF j > Len(s) THEN JsonFail
          ELSE IF s[j] = "]" THEN JsonOk([t |-> "arr", v |-> acc2], j + 1)
          ELSE IF s[j] = "," THEN scan_items(s, j + 1, acc2)
          ELSE JsonFail

\* The members of an object after "{" or after a comma.
scan_members(s, i, acc) ==
    LET k == skip_ws(s, i) IN
    IF k > Len(s) \/ s[k] # "\"" THEN JsonFail
    ELSE
      LET key == scan_string(s, k + 1, <<>>) IN
      IF ~key.ok THEN JsonFail
      ELSE
        LET c == skip_ws(s, key.pos) IN
        IF c > Len(s) \/ s[c] # ":" THEN JsonFail
        ELSE
          LET item == scan_value(s, skip_ws(s, c + 1)) IN
          IF ~item.ok THEN JsonFail
          ELSE
            LET j == skip_ws(s, item.pos)
                acc2 == Append(acc, [k |-> key.val.v, val |-> item.val])
            IN  IF j > Len(s) THEN JsonFail
                ELSE IF s[j] = "}" THEN JsonOk([t |-> "obj", v |-> acc2], j + 1)
                ELSE IF s[j] = "," THEN scan_members(s, j + 1, acc2)
                ELSE JsonFail

scan_value(s, i) ==
    IF i > Len(s) THEN JsonFail
    ELSE IF s[i] = "{" THEN
        LET j == skip_ws(s, i + 1) IN
        IF j <= Len(s) /\ s[j] = "}" THEN JsonOk([t |-> "obj", v |-> <<>>], j + 1)
        ELSE scan_members(s, i + 1, <<>>)
    ELSE IF s[i] = "[" THEN
        LET j == skip_ws(s, i + 1) IN
        IF j <= Len(s) /\ s[j] = "]" THEN JsonOk([t |-> "arr", v |-> <<>>], j + 1)
        ELSE scan_items(s, i + 1, <<>>)
    ELSE IF s[i] = "\"" THEN scan_string(s, i + 1, <<>>)
    ELSE IF s[i] = "-" \/ IsDigit(s[i]) THEN scan_number(s, i)
    ELSE IF s[i] = "t" THEN scan_literal(s, i, <<"t","r","u","e">>)
    ELSE IF s[i] = "f" THEN scan_literal(s, i, <<"f","a","l","s","e">>)
    ELSE IF s[i] = "n" THEN scan_literal(s, i, <<"n","u","l","l">>)
    ELSE JsonFail

\* json.loads(text): ok = FALSE stands for JSONDecodeError.
json_loads(text) ==
    LET r == scan_value(text, skip_ws(text, 1)) IN
    IF r.ok /\ skip_ws(text, r.pos) > Len(text) THEN r ELSE JsonFail

\* dict lookup: the last member with the key wins, as in a Python dict.
HasKey(obj, key) == \E i \in 1..Len(obj.v) : obj.v[i].k = key
GetKey(obj, key) ==
    obj.v[Max({ i \in 1..Len(obj.v) : obj.v[i].k = key })].val

(***************************************************************************)
(* The pydantic models RoomListing and DailyRate.                          *)
(***************************************************************************)
str_name == <<"n","a","m","e">>
str_price == <<"p","r","i","c","e">>
str_date == <<"d","a","t","e">>
str_listings == <<"l","i","s","t","i","n","g","s">>

IsStrField(obj, key) == HasKey(obj, key) /\ GetKey(obj, key).t = "str"

RoomListing_valid(v) ==
    /\ v.t = "obj"
    /\ IsStrField(v, str_name)
    /\ IsStrField(v, str_price)

\* DailyRate.model_validate(d) for a dict d: FALSE stands for ValidationError.
DailyRate_valid(d) ==
    /\ IsStrField(d, str_date)
    /\ HasKey(d, str_listings)
    /\ GetKey(d, str_listings).t = "arr"
    /\ \A i \in 1..Len(GetKey(d, str_listings).v) :
          RoomListing_valid(GetKey(d, str_listings).v[i])

\* validated_data.dict(): the declared fields only.
DailyRate_dict(d) ==
    LET ls == GetKey(d, str_listings).v IN
    [ date     |-> GetKey(d, str_date).v,
      listings |-> [ i \in 1..Len(ls) |->
                       [ name  |-> GetKey(ls[i], str_name).v,
                         price |-> GetKey(ls[i], str_price).v ] ] ]

(***************************************************************************)
(* datetime.date: a calendar date, date + timedelta(days=n) and            *)
(* strftime('%Y-%m-%d').                                                   *)
(***************************************************************************)
Date(y, m, d) == [year |-> y, month |-> m, day |-> d]

IsLeap(y) == (y % 4 = 0 /\ y % 100 # 0) \/ y % 400 = 0

DaysInMonth(y, m) ==
    IF m = 2 THEN (IF IsLeap(y) THEN 29 ELSE 28)
    ELSE IF m \in {4, 6, 9, 11} THEN 30
    ELSE 31

NextDay(dt) ==
    IF dt.day < DaysInMonth(dt.year, dt.month) THEN Date(dt.year, dt.month, dt.day + 1)
    ELSE IF dt.month < 12 THEN Date(dt.year, dt.month + 1, 1)
    ELSE Date(dt.year + 1, 1, 1)

\* dt + timedelta(days=n), n >= 0
RECURSIVE AddDays(_, _)
AddDays(dt, n) == IF n = 0 THEN dt ELSE AddDays(NextDay(dt), n - 1)

Digit(n) == Digits[n + 1]
Pad2(n) == <<Digit((n \div 10) % 10), Digit(n % 10)>>
Pad4(n) == <<Digit((n \div 1000) % 10), Digit((n \div 100) % 10)>> \o Pad2(n % 100)

\* dt.strftime('%Y-%m-%d')
strftime_Ymd(dt) == Pad4(dt.year) \o <<"-">> \o Pad2(dt.month) \o <<"-">> \o Pad2(dt.day)

(***************************************************************************)
(* The navigation plans.  A URL is kept as the pieces its f-string         *)
(* concatenates.                                                           *)
(***************************************************************************)
date_url(base, checkin_str, checkout_str) ==
    <<base, "?chkin=", checkin_str, "&chkout=", checkout_str, "&x_pwa=1&rfrr=HSR">>

\* scrape_hotel_prices, the body of `for i in range(num_days_to_scrape)`.
pricing_entry_no_checkout(hotel_url, start, i) ==
    LET checkin_date == AddDays(start, i)
    IN  [ url  |-> date_url(hotel_url, strftime_Ymd(checkin_date), strftime_Ymd(checkin_date)),
          date |-> strftime_Ymd(checkin_date) ]

pricing_entry(hotel_url, start, i) ==
    LET checkin_date  == AddDays(start, i)
        checkout_date == AddDays(checkin_date, 1)
    IN  [ url  |-> date_url(hotel_url, strftime_Ymd(checkin_date), strftime_Ymd(checkout_date)),
          date |-> strftime_Ymd(checkin_date) ]

\* urls_and_dates after the loop
pricing_plan(hotel_url, start, n) ==
    [ k \in 1..n |-> pricing_entry(hotel_url, start, k - 1) ]

\* discover_hotel_rooms, the dates and the URL of sample day_offset.
discovery_sample(base_url, start, day_offset, sample_interval) ==
    LET checkin_date  == AddDays(start, day_offset * sample_interval)
        checkout_date == AddDays(checkin_date, 1)
    IN  [ url  |-> date_url(base_url, strftime_Ymd(checkin_date), strftime_Ymd(checkout_date)),
          date |-> strftime_Ymd(checkin_date) ]

\* the samples in loop order: sample_dates is their date column
discovery_plan(base_url, start, n, sample_interval) ==
    [ k \in 1..n |-> discovery_sample(base_url, start, k - 1, sample_interval) ]

(***************************************************************************)
(* human_like_delay(min_seconds, max_seconds): the total time slept, with  *)
(* each random draw at the ends of its range: the base delay, the          *)
(* occasional longer break of 5..15 s, and one to three thinking delays.   *)
(***************************************************************************)
thinking_delays == <<1, 3, 5, 8>>       \* 0.1, 0.3, 0.5, 0.8 s in ticks

human_like_delay(min_seconds, max_seconds) ==
    { base + extra + thinking :
        base \in {min_seconds * TicksPerSecond, max_seconds * TicksPerSecond},
        extra \in {0, 5 * TicksPerSecond, 15 * TicksPerSecond},
        thinking \in {thinking_delays[1], 3 * thinking_delays[Len(thinking_delays)]} }

\* The durations a specification lets a sleep take: the shortest, or both ends.
Sample(S, sampling) == IF sampling = "ends" THEN {Min(S), Max(S)} ELSE {Min(S)}

(***************************************************************************)
(* The extraction collaborator's replies.  crawler.arun returns a          *)
(* CrawlResult; the texts below are what the model lets the extraction     *)
(* return for the page of date d, after the prompt's output format.        *)
(***************************************************************************)
quoted(text) == <<"\"">> \o text \o <<"\"">>

listing_json(l) ==
    <<"{">> \o <<"\"","n","a","m","e","\"",":">> \o quoted(l.name) \o <<",","\"","p","r","i","c","e","\"",":">> \o quoted(l.price) \o <<"}">>

RECURSIVE join_listings(_)
join_listings(ls) ==
    IF ls = <<>> THEN <<>>
    ELSE IF Len(ls) = 1 THEN listing_json(ls[1])
    ELSE listing_json(ls[1]) \o <<",">> \o join_listings(Tail(ls))

daily_rate_json(d, ls) ==
    <<"{">> \o <<"\"","d","a","t","e","\"",":">> \o quoted(d) \o <<",","\"","l","i","s","t","i","n","g","s","\"",":">> \o <<"[">> \o join_listings(ls) \o <<"]">> \o <<"}">>

room_twin == <<"T","w","i","n">>
room_double == <<"D","o","u","b","l","e">>
room_suite == <<"S","u","i","t","e">>
room_robot == <<"R","o","b","o","t"," ","R","o","o","m">>
room_captcha == <<"C","a","p","t","c","h","a"," ","S","u","i","t","e">>
price_100 == <<"$","1","0","0">>
price_120 == <<"$","1","2","0">>
sold_out == <<"S","o","l","d"," ","O","u","t">>
not_listed == <<"N","o","t"," ","L","i","s","t","e","d">>
price_not_available == <<"P","r","i","c","e"," ","N","o","t"," ","A","v","a","i","l","a","b","l","e">>
date_tomorrow == <<"t","o","m","o","r","r","o","w">>

DefaultProfile ==
    [ hotel_name |-> "Minn Juso",
      hotel_url  |-> "https://www.expedia.co.jp/en/Osaka-Hotels-Minn-Juso.h18638909.Hotel-Information",
      room_types |-> <<room_double, room_suite, room_twin>> ]

FullListings ==
    << [name |-> room_double, price |-> price_120],
       [name |-> room_suite,  price |-> sold_out],
       [name |-> room_twin,   price |-> price_100] >>

ReplyText(kind, d) ==
    CASE kind = "full"         -> daily_rate_json(d, FullListings)
      [] kind = "prose"        -> <<"H","e","r","e"," ","i","s"," ","t","h","e"," ","d","a","t","a",":"," ">> \o daily_rate_json(d, FullListings) \o <<" ","D","o","n","e",".">>
      [] kind = "blocks"       -> <<"[">> \o daily_rate_json(d, FullListings) \o <<"]">>
      [] kind = "partial"      -> daily_rate_json(d, SubSeq(FullListings, 1, 2))
      [] kind = "robot_room"   -> daily_rate_json(d, <<[name |-> room_robot, price |-> price_100]>>)
      [] kind = "duplicate"    -> daily_rate_json(d, <<FullListings[1], FullListings[1], FullListings[2]>>)
      [] kind = "extra"        -> daily_rate_json(d, Append(FullListings, [name |-> room_robot, price |-> price_100]))
      [] kind = "bad_date"     -> daily_rate_json(date_tomorrow, FullListings)
      [] kind = "captcha_room" -> daily_rate_json(d, <<[name |-> room_captcha, price |-> price_100]>>)
      [] kind = "human_side"   -> <<"S","h","o","w"," ","u","s"," ","y","o","u","r"," ","h","u","m","a","n"," ","s","i","d","e">>
      [] kind = "prove_human"  -> <<"P","l","e","a","s","e"," ","p","r","o","v","e"," ","y","o","u"," ","a","r","e"," ","h","u","m","a","n">>
      [] kind = "captcha_word" -> <<"C","A","P","T","C","H","A"," ","r","e","q","u","i","r","e","d">>
      [] kind = "robot_word"   -> <<"A","r","e"," ","y","o","u"," ","a"," ","r","o","b","o","t","?">>
      [] kind = "start_puzzle" -> <<"S","t","a","r","t"," ","P","u","z","z","l","e">>
      [] kind = "garbage"      -> <<"S","o","r","r","y",","," ","n","o"," ","d","a","t","a">>
      [] kind = "array"        -> <<"[","\"","T","w","i","n","\"",",","\"","D","o","u","b","l","e","\"","]">>
      [] kind = "no_listings"  -> <<"{">> \o <<"\"","d","a","t","e","\"",":">> \o quoted(d) \o <<"}">>
      [] OTHER                 -> <<>>

\* The CrawlResult for a reply kind: "failed" is a load that did not succeed,
\* "empty" a successful load with no extracted content.
Reply(kind, d) ==
    [ success           |-> kind # "failed",
      extracted_content |-> ReplyText(kind, d),
      error_message     |-> IF kind = "failed" THEN "timeout" ELSE "" ]

NoResult == [success |-> FALSE, extracted_content |-> <<>>, error_message |-> "none"]

AllKinds ==
    { "full", "prose", "blocks", "partial", "robot_room", "duplicate", "extra", "bad_date",
      "captcha_room",
      "human_side", "prove_human", "captcha_word", "robot_word", "start_puzzle",
      "garbage", "array", "no_listings", "empty", "failed" }

(***************************************************************************)
(* scrape_hotel_prices: what the loop body does with a CrawlResult.        *)
(***************************************************************************)
captcha_indicators ==
    << <<"s","h","o","w"," ","u","s"," ","y","o","u","r"," ","h","u","m","a","n"," ","s","i","d","e">>,
       <<"p","r","o","v","e"," ","y","o","u"," ","a","r","e"," ","h","u","m","a","n">>,
       <<"c","a","p","t","c","h","a">>,
       <<"s","t","a","r","t"," ","p","u","z","z","l","e">> >>

\* any(indicator in content_lower for indicator in captcha_indicators)
has_captcha(content) ==
    LET content_lower == lower(content)
    IN  \E k \in 1..Len(captcha_indicators) : Contains(content_lower, captcha_indicators[k])

\* the text handed to json.loads
to_parse(raw_output) ==
    LET json_candidate == extract_first_json_object(raw_output)
    IN  IF ~json_candidate.is_none /\ json_candidate.value # <<>>
        THEN json_candidate.value
        ELSE raw_output

\* The branch of the loop body a CrawlResult takes:
\*   "captcha"     the CAPTCHA branch, ended by `continue`
\*   "recorded"    a validated DailyRate was appended
\*   "unexpected"  json.loads gave a value that is not a dict
\*   "decode_error", "validation_error"   the except branch
\*   "failed"      the else branch: the load failed or extracted nothing
outcome_of_parse_first(r) ==
    IF r.success /\ r.extracted_content # <<>>
    THEN LET daily_rate_data == json_loads(to_parse(r.extracted_content))
         IN  IF daily_rate_data.ok /\ daily_rate_data.val.t = "obj"
                  /\ DailyRate_valid(daily_rate_data.val) THEN "recorded"
             ELSE IF has_captcha(r.extracted_content) THEN "captcha"
             ELSE IF ~daily_rate_data.ok THEN "decode_error"
             ELSE IF daily_rate_data.val.t # "obj" THEN "unexpected"
             ELSE "validation_error"
    ELSE "failed"

outcome_of(r) ==
    IF r.success /\ r.extracted_content # <<>>
    THEN IF has_captcha(r.extracted_content) THEN "captcha"
         ELSE LET daily_rate_data == json_loads(to_parse(r.extracted_content))
              IN  IF ~daily_rate_data.ok THEN "decode_error"
                  ELSE IF daily_rate_data.val.t # "obj" THEN "unexpected"
                  ELSE IF DailyRate_valid(daily_rate_data.val) THEN "recorded"
                  ELSE "validation_error"
    ELSE "failed"

\* validated_data.dict() of a result whose outcome is "recorded"
validated_dict(r) == DailyRate_dict(json_loads(to_parse(r.extracted_content)).val)

\* Lines 793-816: what the analysis of a validated DailyRate prints: the
\* counts, and when fewer listings than room types were extracted the warning
\* with the room types no listing names.
NoAnalysis ==
    [ printed |-> FALSE, total_extracted |-> 0, total_expected |-> 0, with_prices |-> 0,
      sold_out |-> 0, not_listed |-> 0, warning |-> FALSE, missing |-> {} ]

analysis(validated_data, room_types) ==
    LET listings        == validated_data.listings
        total_expected  == Len(room_types)
        total_extracted == Len(listings)
        missing         == { room_types[i] : i \in 1..Len(room_types) }
                             \ { listings[i].name : i \in 1..Len(listings) }
    IN  [ printed         |-> TRUE,
          total_extracted |-> total_extracted,
          total_expected  |-> total_expected,
          with_prices     |-> Cardinality({ i \in 1..Len(listings) :
                                 listings[i].price \notin {not_listed, price_not_available, sold_out} }),
          sold_out        |-> Cardinality({ i \in 1..Len(listings) : listings[i].price = sold_out }),
          not_listed      |-> Cardinality({ i \in 1..Len(listings) : listings[i].price = not_listed }),
          warning         |-> total_extracted < total_expected,
          missing         |-> IF total_extracted < total_expected THEN missing ELSE {} ]

\* What a branch prints, in the order of its statements, each line by its
\* first words: rotate_session prints "Rotating session" (502) and
\* human_like_delay prints "Waiting" before it sleeps (415).
branch_output(outcome) ==
    CASE outcome = "captcha"    -> <<"CAPTCHA detected", "CAPTCHA page saved",
                                     "Rotating session", "Waiting">>
      [] outcome = "recorded"   -> <<"Extracted">>
      [] outcome = "unexpected" -> <<"Unexpected data format">>
      [] outcome \in {"decode_error", "validation_error"}
                                -> <<"Failed to parse data", "Debug output saved">>
      [] outcome = "failed"     -> <<"Failed to scrape data", "Retrying",
                                     "Rotating session", "Waiting">>
      [] OTHER                  -> <<>>

\* The branches that call session_manager.rotate_session().
rotates_after_captcha_only(outcome) == outcome = "captcha"

rotates_after_recorded_too(outcome) == outcome \in {"captcha", "failed", "recorded"}

rotates_after(outcome) == outcome \in {"captcha", "failed"}

\* The delay a branch ends with: the arguments of its human_like_delay call.
delay_after(outcome) ==
    CASE outcome = "captcha" -> human_like_delay(30, 60)
      [] outcome = "failed"  -> human_like_delay(5, 10)
      [] OTHER               -> {0}

\* all_daily_rates.append(validated_data.dict())
append_replacing(rates, rate) == <<rate>>

append(rates, rate) == Append(rates, rate)

\* open(name, 'w').write(content)
write_file(fs, name, content) ==
    { f \in fs : f.name # name } \cup { [name |-> name, content |-> content] }

\* The file a branch writes.
files_after_decode_only(fs, outcome, date_str, content) ==
    CASE outcome = "captcha" -> write_file(fs, <<"captcha_page", date_str>>, content)
      [] outcome = "decode_error"
                             -> write_file(fs, <<"debug", date_str>>, content)
      [] OTHER               -> fs

files_after(fs, outcome, date_str, content) ==
    CASE outcome = "captcha" -> write_file(fs, <<"captcha_page", date_str>>, content)
      [] outcome \in {"decode_error", "validation_error"}
                             -> write_file(fs, <<"debug", date_str>>, content)
      [] OTHER               -> fs

(***************************************************************************)
(* outcome_of and validated_dict tabulated over every CrawlResult the      *)
(* specifications below let the collaborator return, so that the text of a *)
(* reply is scanned and decoded once and not in every state.               *)
(***************************************************************************)
MaxDays == 2            \* num_days_to_scrape, few dates
MaxRetryDays == 4       \* num_days_to_scrape, enough for three failures in a row
MaxLongDays == 11       \* num_days_to_scrape, enough to reach the request limit

RunStart == { Date(2025, 8, 26) }

\* The replies that end in each failure branch, and those of a long run.
RetryKinds == {"full", "captcha_word", "failed", "garbage", "no_listings"}
LongKinds == {"full", "captcha_word", "failed"}

ReplyDates(days) ==
    { strftime_Ymd(AddDays(s, i)) : s \in RunStart, i \in 0..(days - 1) }

Replies ==
    { Reply(kind, d) : kind \in AllKinds, d \in ReplyDates(MaxDays) }
    \cup { Reply(kind, d) : kind \in RetryKinds, d \in ReplyDates(MaxRetryDays) }
    \cup { Reply(kind, d) : kind \in LongKinds, d \in ReplyDates(MaxLongDays) }

Handled ==
    UNION { { [ result    |-> r,
                outcome   |-> h.outcome,
                validated |-> h.validated,
                analysis  |-> IF h.outcome = "recorded"
                              THEN analysis(h.validated, DefaultProfile.room_types)
                              ELSE NoAnalysis ] :
              h \in { [ outcome   |-> outcome_of(r),
                        validated |-> IF outcome_of(r) = "recorded"
                                      THEN validated_dict(r) ELSE <<>> ] } } :
            r \in Replies }

handled(r) == CHOOSE h \in Handled : h.result = r

(***************************************************************************)
(* scrape_hotel_prices as a state machine.  pc:                            *)
(*   "loop"    at the top of the for loop (or past its last iteration)     *)
(*   "delay"   rotation check and increment_request done                   *)
(*   "open"    before `async with AsyncWebCrawler`                         *)
(*   "arun"    browser open, before `await crawler.arun(url)`              *)
(*   "handle"  the CrawlResult is back                                     *)
(*   "done"    returned;  "raised"  left by an exception of arun           *)
(***************************************************************************)
NoLoad == [ idx |-> 0, gen |-> 0, session_id |-> <<>>, request_count |-> 0, served |-> 0,
            outcome |-> "none", analysis |-> NoAnalysis, output |-> <<>> ]

\* The record of the page load issued now: which session issues it, that
\* session's request_count, and how many page loads the session has served;
\* the outcome, the printed analysis and the lines the branch printed are
\* filled in when it is handled.
ThisLoad(last, i, gen, s, outcome) ==
    [ idx           |-> i,
      gen           |-> gen,
      session_id    |-> s.session_id,
      request_count |-> s.request_count,
      served        |-> IF last.gen = gen THEN last.served + 1 ELSE 1,
      outcome       |-> outcome,
      analysis      |-> NoAnalysis,
      output        |-> <<>> ]

\* `async with AsyncWebCrawler(...) as crawler`: entering the block starts a
\* browser, leaving it (at its end, by `continue` or by an exception) closes
\* that browser.  n is the number of browsers open.
crawler_aenter(n) == n + 1

crawler_aexit_leaking(n) == n

crawler_aexit(n) == n - 1

NoDate == [idx |-> 0, loads |-> 0, first_outcome |-> "none", last_outcome |-> "none"]
NotReturned == [kind |-> "running", hotel_name |-> "", daily_rates |-> <<>>, summary |-> {}]

RunInit(days, starts, draws) ==
    /\ now = 0
    /\ session \in NewSessions(0, draws)
    /\ n_sessions = 1
    /\ op = NoOp
    /\ pc = "loop"
    /\ hotel_profile = DefaultProfile
    /\ start_date \in starts
    /\ num_days \in days
    /\ urls_and_dates = pricing_plan(hotel_profile.hotel_url, start_date, num_days)
    /\ idx = 1
    /\ all_daily_rates = <<>>
    /\ result = NoResult
    /\ browser_open = 0
    /\ files = {}
    /\ returned = NotReturned
    /\ calls = [increment_request |-> 0, arun |-> 0, warm_up |-> 0, bad |-> 0]
    /\ begin = [request_count |-> 0, elapsed |-> 0, sessions_before |-> 1]
    /\ load = NoLoad
    /\ prev_load = NoLoad
    /\ date_hist = NoDate
    /\ done_date = NoDate
    /\ failed_in_row = 0

\* Lines 560-569: the next item of the loop, the rotation check, increment_request.
BeginDate_no_increment_on_rotate(draws) ==
    /\ pc = "loop"
    /\ idx <= num_days
    /\ begin' = [ request_count   |-> session.request_count,
                  elapsed         |-> now - session.start_time,
                  sessions_before |-> n_sessions ]
    /\ IF should_rotate_session(session, now)
       THEN /\ session' \in rotate_session(session, now, draws)
            /\ n_sessions' = n_sessions + 1
            /\ UNCHANGED calls
       ELSE /\ session' = increment_request(session)
            /\ calls' = [calls EXCEPT !.increment_request = @ + 1]
            /\ UNCHANGED n_sessions
    /\ date_hist' = [NoDate EXCEPT !.idx = idx]
    /\ pc' = "delay"
    /\ UNCHANGED <<now, op, hotel_profile, start_date, num_days, urls_and_dates, idx,
                   all_daily_rates, result, browser_open, files, returned,
                   load, prev_load, done_date, failed_in_row, plan_vars, json_vars, disc_vars>>

BeginDate(draws) ==
    /\ pc = "loop"
    /\ idx <= num_days
    /\ begin' = [ request_count   |-> session.request_count,
                  elapsed         |-> now - session.start_time,
                  sessions_before |-> n_sessions ]
    /\ IF should_rotate_session(session, now)
       THEN /\ \E fresh \in rotate_session(session, now, draws) :
                 session' = increment_request(fresh)
            /\ n_sessions' = n_sessions + 1
       ELSE /\ session' = increment_request(session)
            /\ UNCHANGED n_sessions
    /\ calls' = [calls EXCEPT !.increment_request = @ + 1]
    /\ date_hist' = [NoDate EXCEPT !.idx = idx]
    /\ pc' = "delay"
    /\ UNCHANGED <<now, op, hotel_profile, start_date, num_days, urls_and_dates, idx,
                   all_daily_rates, result, browser_open, files, returned,
                   load, prev_load, done_date, failed_in_row, plan_vars, json_vars, disc_vars>>

\* Lines 582-584: human_like_delay(8, 20) before every date but the first.
InterRequestDelay(sampling) ==
    /\ pc = "delay"
    /\ \E d \in (IF idx > 1 THEN Sample(human_like_delay(8, 20), sampling) ELSE {0}) :
         now' = now + d
    /\ pc' = "open"
    /\ UNCHANGED <<session, n_sessions, op, hotel_profile, start_date, num_days,
                   urls_and_dates, idx, all_daily_rates, result, browser_open, files,
                   returned, hist_vars, plan_vars, json_vars, disc_vars>>

\* Lines 587-591: the browser is started; on the first date warm_up_session
\* loads the main site, sleeps 3..7 s when that succeeded, and swallows any error.
OpenCrawler(sampling) ==
    /\ pc = "open"
    /\ browser_open' = crawler_aenter(browser_open)
    /\ IF idx = 1
       THEN /\ \E warmed \in BOOLEAN :
                 \E d \in (IF warmed
                           THEN Sample({3 * TicksPerSecond, 7 * TicksPerSecond}, sampling)
                           ELSE {0}) :
                   now' = now + d
            /\ calls' = [calls EXCEPT !.warm_up = @ + 1]
       ELSE UNCHANGED <<now, calls>>
    /\ pc' = "arun"
    /\ UNCHANGED <<session, n_sessions, op, hotel_profile, start_date, num_days,
                   urls_and_dates, idx, all_daily_rates, result, files, returned,
                   begin, load, prev_load, date_hist, done_date, failed_in_row, plan_vars, json_vars, disc_vars>>

\* Line 759: result = await crawler.arun(url=url, config=crawler_config).
\* The collaborator answers with a reply of one of `kinds` after one of
\* `durations`; at most max_bad replies of a run are other than a "full"
\* reply after the shortest duration.
Arun(kinds, durations, max_bad) ==
    /\ pc = "arun"
    /\ \E kind \in kinds, t \in durations :
         LET bad == kind # "full" \/ t # Min(durations) IN
         /\ bad => calls.bad < max_bad
         /\ result' = Reply(kind, urls_and_dates[idx].date)
         /\ now' = now + t
         /\ calls' = [calls EXCEPT !.arun = @ + 1,
                                   !.bad = IF bad THEN @ + 1 ELSE @]
    /\ prev_load' = load
    /\ load' = ThisLoad(load, idx, n_sessions, session, "pending")
    /\ date_hist' = [date_hist EXCEPT !.loads = @ + 1]
    /\ pc' = "handle"
    /\ UNCHANGED <<session, n_sessions, op, hotel_profile, start_date, num_days,
                   urls_and_dates, idx, all_daily_rates, browser_open, files, returned,
                   begin, done_date, failed_in_row, plan_vars, json_vars, disc_vars>>

\* Lines 587-759 when the browser collaborator raises during the page load:
\* nothing in scrape_hotel_prices catches it, the `async with` closes the
\* browser and the function is left.
ArunRaises(durations) ==
    /\ pc = "arun"
    /\ \E t \in durations : now' = now + t
    /\ calls' = [calls EXCEPT !.arun = @ + 1]
    /\ prev_load' = load
    /\ load' = ThisLoad(load, idx, n_sessions, session, "raised")
    /\ date_hist' = [date_hist EXCEPT !.loads = @ + 1,
                                      !.first_outcome = IF @ = "none" THEN "raised" ELSE @,
                                      !.last_outcome = "raised"]
    /\ browser_open' = crawler_aexit(browser_open)
    /\ pc' = "raised"
    /\ UNCHANGED <<session, n_sessions, op, hotel_profile, start_date, num_days,
                   urls_and_dates, idx, all_daily_rates, result, files, returned,
                   begin, done_date, failed_in_row, plan_vars, json_vars, disc_vars>>

\* Lines 761-838: the branches on the CrawlResult, to the end of the loop
\* body; leaving the `async with` closes the browser and the for loop takes
\* the next item.
HandleResult(draws, sampling) ==
    /\ pc = "handle"
    /\ LET outcome  == handled(result).outcome
           date_str == urls_and_dates[idx].date
           finished == [date_hist EXCEPT
                          !.first_outcome = IF @ = "none" THEN outcome ELSE @,
                          !.last_outcome = outcome]
       IN  /\ all_daily_rates' = IF outcome = "recorded"
                                 THEN append(all_daily_rates, handled(result).validated)
                                 ELSE all_daily_rates
           /\ files' = files_after(files, outcome, date_str, result.extracted_content)
           /\ IF rotates_after(outcome)
              THEN /\ session' \in rotate_session(session, now, draws)
                   /\ n_sessions' = n_sessions + 1
              ELSE UNCHANGED <<session, n_sessions>>
           /\ \E d \in Sample(delay_after(outcome), sampling) : now' = now + d
           /\ load' = [load EXCEPT !.outcome = outcome, !.analysis = handled(result).analysis,
                                   !.output = branch_output(outcome)]
           /\ failed_in_row' = IF outcome = "failed" THEN failed_in_row + 1 ELSE 0
           /\ date_hist' = finished
           /\ done_date' = finished
    /\ browser_open' = crawler_aexit(browser_open)
    /\ idx' = idx + 1
    /\ pc' = "loop"
    /\ UNCHANGED <<op, hotel_profile, start_date, num_days, urls_and_dates, result,
                   returned, calls, begin, prev_load, plan_vars, json_vars, disc_vars>>

\* Lines 854-867: the lines of the room availability summary.  room_prices
\* maps a listing name to the prices listed under it, over all recorded
\* DailyRates; a line is printed for every room type that is a key of it.
room_prices(rates, name) ==
    UNION { { <<r, i>> : i \in { j \in 1..Len(rates[r].listings) :
                                  rates[r].listings[j].name = name } } :
            r \in 1..Len(rates) }

availability_summary(rates, room_types) ==
    { [ room_name |-> room_types[k],
        available |-> Cardinality({ e \in room_prices(rates, room_types[k]) :
                         rates[e[1]].listings[e[2]].price
                           \notin {sold_out, not_listed, price_not_available} }),
        days      |-> Cardinality(room_prices(rates, room_types[k])) ] :
      k \in { j \in 1..Len(room_types) : room_prices(rates, room_types[j]) # {} } }

\* Lines 840-877: the final data structure, the summary, save_results, the
\* return value.
Finish ==
    /\ pc = "loop"
    /\ idx > num_days
    /\ IF all_daily_rates # <<>>
       THEN /\ returned' = [ kind        |-> "HotelData",
                             hotel_name  |-> hotel_profile.hotel_name,
                             daily_rates |-> all_daily_rates,
                             summary     |-> availability_summary(all_daily_rates,
                                                                  hotel_profile.room_types) ]
            /\ files' = write_file(files, <<"scraped_data", hotel_profile.hotel_name>>,
                                   all_daily_rates)
       ELSE /\ returned' = [NotReturned EXCEPT !.kind = "None"]
            /\ UNCHANGED files
    /\ pc' = "done"
    /\ UNCHANGED <<sm_vars, hotel_profile, start_date, num_days, urls_and_dates, idx,
                   all_daily_rates, result, browser_open, hist_vars, plan_vars, json_vars, disc_vars>>

(***************************************************************************)
(* Values of the variables a specification does not use.                   *)
(***************************************************************************)
RunIdle ==
    /\ pc = "idle"
    /\ hotel_profile = DefaultProfile
    /\ start_date = Date(2025, 8, 26)
    /\ num_days = 0
    /\ urls_and_dates = <<>>
    /\ idx = 0
    /\ all_daily_rates = <<>>
    /\ result = NoResult
    /\ browser_open = 0
    /\ files = {}
    /\ returned = NotReturned
    /\ calls = [increment_request |-> 0, arun |-> 0, warm_up |-> 0, bad |-> 0]
    /\ begin = [request_count |-> 0, elapsed |-> 0, sessions_before |-> 0]
    /\ load = NoLoad
    /\ prev_load = NoLoad
    /\ date_hist = NoDate
    /\ done_date = NoDate
    /\ failed_in_row = 0

NoWindow == [start |-> Date(2025, 8, 26), count |-> 0, interval |-> 0]
NoPlans == [computed |-> FALSE, pricing |-> <<>>, discovery |-> <<>>]

PlanIdle ==
    /\ window = NoWindow
    /\ plans = NoPlans

JsonIdle ==
    /\ raw_text = <<>>
    /\ extracted = NotCalled

NoProfile == [built |-> FALSE, room_types |-> <<>>, total_rooms_discovered |-> 0]

DiscoveryIdle ==
    /\ disc_pc = "idle"
    /\ sample_replies = <<>>
    /\ sample_no = 0
    /\ discovered_rooms = {}
    /\ profile = NoProfile

SessionIdle ==
    /\ now = 0
    /\ session = SessionManager_init(0, Draw(1).r, Draw(1).ua, Draw(1).vp)
    /\ n_sessions = 0
    /\ op = NoOp

(***************************************************************************)
(* The session manager on its own: its methods called in any order, with   *)
(* the clock jumping to sampled ages around the time limit.                *)
(***************************************************************************)
ElapsedSamples ==
    {1, TicksPerSecond}
      \cup ((time_limit * TicksPerSecond - Margin)..(time_limit * TicksPerSecond + Margin))

SM_Init ==
    /\ now = 0
    /\ session \in NewSessions(0, MaxDraws)
    /\ n_sessions = 1
    /\ op = [name |-> "__init__", ret |-> FALSE]
    /\ RunIdle
    /\ PlanIdle
    /\ JsonIdle
    /\ DiscoveryIdle

SM_should_rotate_session ==
    /\ op' = [name |-> "should_rotate_session", ret |-> should_rotate_session(session, now)]
    /\ UNCHANGED <<now, session, n_sessions, run_vars, hist_vars, plan_vars, json_vars, disc_vars>>

SM_increment_request ==
    /\ session.request_count < MaxRequests
    /\ session' = increment_request(session)
    /\ op' = [name |-> "increment_request", ret |-> FALSE]
    /\ UNCHANGED <<now, n_sessions, run_vars, hist_vars, plan_vars, json_vars, disc_vars>>

SM_rotate_session ==
    /\ n_sessions < MaxSessions
    /\ session' \in rotate_session(session, now, MaxDraws)
    /\ n_sessions' = n_sessions + 1
    /\ op' = [name |-> "rotate_session", ret |-> FALSE]
    /\ UNCHANGED <<now, run_vars, hist_vars, plan_vars, json_vars, disc_vars>>

\* Time passes between two calls.
SM_Tick ==
    /\ \E e \in ElapsedSamples :
         /\ session.start_time + e > now
         /\ now' = session.start_time + e
    /\ op' = NoOp
    /\ UNCHANGED <<session, n_sessions, run_vars, hist_vars, plan_vars, json_vars, disc_vars>>

SM_Next ==
    \/ SM_should_rotate_session
    \/ SM_increment_request
    \/ SM_rotate_session
    \/ SM_Tick

SpecSession == SM_Init /\ [][SM_Next]_vars

(***************************************************************************)
(* The navigation plans on their own: a window is drawn and both plans are *)
(* computed for it.                                                        *)
(***************************************************************************)
MaxCount == 4           \* dates in a plan
MaxInterval == 8        \* days between discovery samples

StartDates ==
    { Date(2025, 8, 26), Date(2024, 2, 27), Date(2025, 2, 27), Date(2025, 12, 30) }

Plan_Init ==
    /\ window \in [start : StartDates, count : 1..MaxCount, interval : 1..MaxInterval]
    /\ plans = NoPlans
    /\ SessionIdle
    /\ RunIdle
    /\ JsonIdle
    /\ DiscoveryIdle

ComputePlans ==
    /\ ~plans.computed
    /\ plans' = [ computed  |-> TRUE,
                  pricing   |-> pricing_plan(DefaultProfile.hotel_url, window.start,
                                             window.count),
                  discovery |-> discovery_plan(DefaultProfile.hotel_url, window.start,
                                               window.count, window.interval) ]
    /\ UNCHANGED <<window, sm_vars, run_vars, hist_vars, json_vars, disc_vars>>

Plan_Next == ComputePlans

SpecPlan == Plan_Init /\ [][Plan_Next]_vars

(***************************************************************************)
(* scrape_hotel_prices over a few dates, with every kind of reply and the  *)
(* shortest and the longest sleep a branch can end with.                   *)
(***************************************************************************)
MaxRunDraws == 1        \* samples of a session's random draws, in a run
PageLoadSeconds == 30   \* how long a page load with its extraction takes

PageLoad == PageLoadSeconds * TicksPerSecond

Init == RunInit(1..MaxDays, RunStart, MaxRunDraws) /\ PlanIdle /\ JsonIdle /\ DiscoveryIdle

Next ==
    \/ BeginDate(MaxRunDraws)
    \/ InterRequestDelay("shortest")
    \/ OpenCrawler("shortest")
    \/ Arun(AllKinds, {PageLoad}, MaxDays)
    \/ ArunRaises({PageLoad})
    \/ HandleResult(MaxRunDraws, "ends")
    \/ Finish

Spec == Init /\ [][Next]_vars

(***************************************************************************)
(* scrape_hotel_prices over enough dates for runs of failures, with the    *)
(* replies that end in each failure branch.                                *)
(***************************************************************************)
RetryInit == RunInit(1..MaxRetryDays, RunStart, MaxRunDraws) /\ PlanIdle /\ JsonIdle /\ DiscoveryIdle

RetryNext ==
    \/ BeginDate(MaxRunDraws)
    \/ InterRequestDelay("shortest")
    \/ OpenCrawler("shortest")
    \/ Arun(RetryKinds, {PageLoad}, MaxRetryDays)
    \/ ArunRaises({PageLoad})
    \/ HandleResult(MaxRunDraws, "shortest")
    \/ Finish

SpecRetry == RetryInit /\ [][RetryNext]_vars

(***************************************************************************)
(* scrape_hotel_prices over enough dates to reach the request limit and    *)
(* the time limit, with few replies that are not a prompt full DailyRate.  *)
(***************************************************************************)
MaxLongBad == 1         \* replies of a run that are late or not a full DailyRate
SlowLoadSeconds == 1200 \* a page load whose extraction is slow

LongInit == RunInit({MaxLongDays}, RunStart, MaxRunDraws) /\ PlanIdle /\ JsonIdle /\ DiscoveryIdle

LongNext ==
    \/ BeginDate(MaxRunDraws)
    \/ InterRequestDelay("shortest")
    \/ OpenCrawler("shortest")
    \/ Arun(LongKinds, {PageLoad, SlowLoadSeconds * TicksPerSecond}, MaxLongBad)
    \/ ArunRaises({PageLoad})
    \/ HandleResult(MaxRunDraws, "shortest")
    \/ Finish

SpecLong == LongInit /\ [][LongNext]_vars

(***************************************************************************)
(* The session manager's rotation rule.                                    *)
(***************************************************************************)
TwentyMinutes == 20 * 60 * TicksPerSecond

\* C1: should_rotate_session() returns true if and only if request_count is
\* at least 10 or the session is at least 20 minutes old; below both limits
\* it returns false.
C1_should_rotate_iff_a_limit_is_reached ==
    op.name = "should_rotate_session" =>
        (op.ret <=> (session.request_count >= 10 \/ now - session.start_time >= TwentyMinutes))

\* the check answered true for a session of exactly 20 minutes with fewer
\* than 10 requests
C1_true_at_twenty_minutes ==
    /\ op.name = "should_rotate_session"
    /\ op.ret
    /\ session.request_count \in 1..9
    /\ now - session.start_time = TwentyMinutes

\* C3: right after rotate_session() request_count is 0, start_time is the
\* time of the rotation, session_id carries that time and a new random
\* number, user_agent and viewport are drawn from their lists, and
\* should_rotate_session() is false.
C3_rotation_replaces_the_whole_session ==
    op.name = "rotate_session" =>
        /\ session.request_count = 0
        /\ session.start_time = now
        /\ session.session_id[1] = "session"
        /\ session.session_id[2] = now \div TicksPerSecond
        /\ session.session_id[3] \in 1000..9999
        /\ \E i \in 1..Len(user_agents) : session.user_agent = user_agents[i]
        /\ \E i \in 1..Len(viewports) : session.viewport = viewports[i]
        /\ DOMAIN session = {"session_id", "user_agent", "viewport", "request_count", "start_time"}
        /\ ~(session.request_count >= 10 \/ now - session.start_time >= TwentyMinutes)

\* a session has just been rotated more than 20 minutes into the run: the
\* fresh session starts at the time of the rotation
C3_rotated_after_twenty_minutes ==
    /\ op.name = "rotate_session"
    /\ n_sessions = 2
    /\ now > TwentyMinutes
    /\ session.start_time = now

(***************************************************************************)
(* Rotation in scrape_hotel_prices.                                        *)
(***************************************************************************)
AfterRotationCheck == pc \in {"delay", "open", "arun", "handle"}

\* C2: the session is rotated at the start of a date's iteration exactly
\* when it had served 10 requests or was 20 minutes old, so a session at
\* request_count 9 and under 20 minutes is kept and one at 10 is replaced;
\* at every date page load request_count is between 1 and 10 and the
\* session has served at most 10 date page loads.
C2_rotation_before_the_page_load ==
    /\ AfterRotationCheck =>
         ( (n_sessions = begin.sessions_before + 1)
             <=> (begin.request_count >= 10 \/ begin.elapsed >= TwentyMinutes) )
    /\ AfterRotationCheck =>
         (n_sessions = begin.sessions_before \/ n_sessions = begin.sessions_before + 1)
    /\ load.idx > 0 =>
         /\ load.request_count \in 1..10
         /\ load.served \in 1..10
         /\ load.served = load.request_count

\* the eleventh date is loaded by a fresh session, the first ten by one
\* session that was kept at request_count 9 and replaced at 10
C2_eleventh_load_by_a_fresh_session ==
    /\ pc = "handle"
    /\ load.idx = 11
    /\ load.request_count = 1
    /\ load.gen = 2
    /\ prev_load.gen = 1
    /\ prev_load.served = 10
    /\ begin.request_count = 10
    /\ begin.elapsed < TwentyMinutes

DaysBeforeYear(y) == 365 * (y - 1) + (y - 1) \div 4 - (y - 1) \div 100 + (y - 1) \div 400

DaysBeforeMonth(y, m) ==
    <<0, 31, 59, 90, 120, 151, 181, 212, 243, 273, 304, 334>>[m]
      + (IF m > 2 /\ (y % 4 = 0 /\ (y % 100 # 0 \/ y % 400 = 0)) THEN 1 ELSE 0)

DayNumber(dt) == DaysBeforeYear(dt.year) + DaysBeforeMonth(dt.year, dt.month) + dt.day

DigitValue(c) == CHOOSE n \in 0..9 : Digits[n + 1] = c

\* the date a YYYY-MM-DD text names
ParseYmd(str) ==
    [ year  |-> 1000 * DigitValue(str[1]) + 100 * DigitValue(str[2])
                  + 10 * DigitValue(str[3]) + DigitValue(str[4]),
      month |-> 10 * DigitValue(str[6]) + DigitValue(str[7]),
      day   |-> 10 * DigitValue(str[9]) + DigitValue(str[10]) ]

IsYmd(str) ==
    /\ Len(str) = 10
    /\ str[5] = "-" /\ str[8] = "-"
    /\ \A i \in {1, 2, 3, 4, 6, 7, 9, 10} : IsDigit(str[i])
    /\ ParseYmd(str).month \in 1..12
    /\ ParseYmd(str).day \in 1..31

\* the check-in and check-out texts of a URL of the plan
UrlCheckin(url) == url[3]
UrlCheckout(url) == url[5]

\* the URL is the base address with the chkin, chkout and fixed parameters
IsDateUrl(url) ==
    /\ Len(url) = 6
    /\ url[1] = DefaultProfile.hotel_url
    /\ url[2] = "?chkin=" /\ url[4] = "&chkout=" /\ url[6] = "&x_pwa=1&rfrr=HSR"

\* entry k of a plan is the date `step` * (k - 1) days after the start, with
\* the day after it as check-out
PlanFollows(plan, step) ==
    /\ Len(plan) = window.count
    /\ \A k \in 1..Len(plan) :
         /\ IsYmd(plan[k].date)
         /\ DayNumber(ParseYmd(plan[k].date)) = DayNumber(window.start) + (k - 1) * step
         /\ IsDateUrl(plan[k].url)
         /\ UrlCheckin(plan[k].url) = plan[k].date
         /\ IsYmd(UrlCheckout(plan[k].url))
         /\ DayNumber(ParseYmd(UrlCheckout(plan[k].url)))
              = DayNumber(ParseYmd(plan[k].date)) + 1

Example_2025_08_26 == <<"2","0","2","5","-","0","8","-","2","6">>
Example_2025_09_02 == <<"2","0","2","5","-","0","9","-","0","2">>

\* C6: a plan has `count` entries, entry i is the date start + i * interval
\* with check-out one day later; discovery uses the given interval, pricing
\* uses 1; from 2025-08-26, count 2 and interval 7 discovery samples
\* 2025-08-26 and 2025-09-02.
C6_plan_dates ==
    plans.computed =>
        /\ PlanFollows(plans.discovery, window.interval)
        /\ PlanFollows(plans.pricing, 1)
        /\ (window = [start |-> Date(2025, 8, 26), count |-> 2, interval |-> 7]) =>
              /\ plans.discovery[1].date = Example_2025_08_26
              /\ plans.discovery[2].date = Example_2025_09_02

\* the plans of the example window have been computed
C6_example_window_planned ==
    /\ plans.computed
    /\ window = [start |-> Date(2025, 8, 26), count |-> 2, interval |-> 7]
    /\ Len(plans.discovery) = 2
    /\ plans.discovery[2].date = Example_2025_09_02
    /\ plans.pricing[2].date # plans.discovery[2].date

(***************************************************************************)
(* The CAPTCHA keywords and the retries of a date.                         *)
(***************************************************************************)
captcha_keywords ==
    { <<"s","h","o","w"," ","u","s"," ","y","o","u","r"," ","h","u","m","a","n"," ","s","i","d","e">>,
      <<"p","r","o","v","e"," ","y","o","u"," ","a","r","e"," ","h","u","m","a","n">>,
      <<"c","a","p","t","c","h","a">>,
      <<"r","o","b","o","t">>,
      <<"s","t","a","r","t"," ","p","u","z","z","l","e">> }

Handling == pc = "loop" /\ load.idx > 0 /\ load.outcome # "raised"

\* C7: a page load whose text contains one of the five keywords, in any
\* case, ends in the CAPTCHA branch and records no DailyRate.
C7_each_keyword_is_a_captcha ==
    (Handling /\ result.success
       /\ \E k \in captcha_keywords : Contains(lower(result.extracted_content), k))
      => /\ load.outcome = "captcha"
         /\ ~(\E i \in 1..Len(all_daily_rates) :
                all_daily_rates[i].date = urls_and_dates[load.idx].date)

\* C8: a date whose first page load ended in the CAPTCHA branch is loaded
\* exactly once more before the loop goes to the next date.
C8_captcha_retried_once ==
    (pc = "loop" /\ done_date.first_outcome = "captcha") => done_date.loads = 2

\* C9: a date whose first page load ended in the failure branch is loaded
\* exactly once more before the loop goes to the next date.
C9_failure_retried_once ==
    (pc = "loop" /\ done_date.first_outcome = "failed") => done_date.loads = 2

\* C10: a date whose first page load could not be parsed has its raw text
\* written to a file and is loaded exactly once more, by a rotated session.
C10_parse_failure_retried_once ==
    (pc = "loop" /\ done_date.first_outcome \in {"decode_error", "validation_error"}) =>
        /\ \E f \in files : f.name = <<"debug", urls_and_dates[done_date.idx].date>>
        /\ done_date.loads = 2
        /\ n_sessions > load.gen

(***************************************************************************)
(* The end of a run.                                                       *)
(***************************************************************************)
\* C11: every date gets at most 2 page loads, a run issues at most
\* 2 * count page loads, and a run stops nowhere but at its return after
\* the final summary.
C11_bounded_loads_and_return ==
    /\ date_hist.loads <= 2
    /\ calls.arun <= 2 * num_days
    /\ (pc = "done" \/ ENABLED RetryNext)

\* C12: when the run has ended, after whatever failures, every planned date
\* has been attempted and the DailyRates recorded before are returned.
C12_bad_date_never_aborts_the_run ==
    pc \in {"done", "raised"} =>
        /\ load.idx = num_days
        /\ all_daily_rates # <<>> =>
              (returned.kind = "HotelData" /\ returned.daily_rates = all_daily_rates)

(***************************************************************************)
(* The analysis of a recorded DailyRate and the summary of a run.          *)
(***************************************************************************)
Catalog == { hotel_profile.room_types[k] : k \in 1..Len(hotel_profile.room_types) }

\* the DailyRate appended last, and the room names its listings carry
LastRate == all_daily_rates[Len(all_daily_rates)]
ListedNames(rate) == { rate.listings[i].name : i \in 1..Len(rate.listings) }

JustRecorded == pc = "loop" /\ load.outcome = "recorded" /\ all_daily_rates # <<>>

\* C13: for every recorded DailyRate the missing rooms reported are exactly
\* the catalog names no listing carries, and the date is flagged whenever
\* there is such a name, however many listings were returned.
C13_missing_rooms_are_reported ==
    JustRecorded =>
        /\ load.analysis.missing = Catalog \ ListedNames(LastRate)
        /\ load.analysis.warning <=> (Catalog \ ListedNames(LastRate) # {})

\* C14: a recorded DailyRate that lacks catalog rooms is appended, the loop
\* goes to the next date, and the next page load is the next date's, by the
\* same session: no rotation and no second page load of the date.
C14_partial_result_is_accepted ==
    /\ (JustRecorded /\ Catalog \ ListedNames(LastRate) # {}) =>
          /\ Len(LastRate.listings) = load.analysis.total_extracted
          /\ idx = load.idx + 1
          /\ done_date.idx = load.idx /\ done_date.loads = 1
          /\ n_sessions = load.gen
          /\ session.session_id = load.session_id
          /\ session.request_count = load.request_count
    /\ (load.idx > 0 /\ prev_load.outcome = "recorded" /\ prev_load.analysis.warning) =>
          /\ load.idx = prev_load.idx + 1
          /\ load.gen = prev_load.gen
          /\ load.session_id = prev_load.session_id
          /\ load.request_count = prev_load.request_count + 1

\* the second date is being loaded after the first was recorded with the
\* Twin room missing
C14_next_date_after_partial ==
    /\ pc = "handle"
    /\ load.idx = 2
    /\ prev_load.outcome = "recorded"
    /\ prev_load.analysis.warning
    /\ prev_load.analysis.missing = {room_twin}
    /\ Len(all_daily_rates) = 1
    /\ ListedNames(all_daily_rates[1]) = {room_double, room_suite}

Returned == pc = "done" /\ returned.kind = "HotelData"

\* the recorded dates on which a room has a price that is not a status
DatesWithPrice(rates, room) ==
    { r \in 1..Len(rates) :
        \E i \in 1..Len(rates[r].listings) :
            /\ rates[r].listings[i].name = room
            /\ rates[r].listings[i].price \notin {sold_out, price_not_available, not_listed} }

\* C19: the summary has a line for every catalog room: the number of
\* recorded dates on which the room has a price outside Sold Out, Price Not
\* Available and Not Listed, over the number of recorded DailyRates.
C19_summary_per_catalog_room ==
    Returned =>
        \A room \in Catalog :
            \E line \in returned.summary :
                /\ line.room_name = room
                /\ line.days = Len(returned.daily_rates)
                /\ line.available = Cardinality(DatesWithPrice(returned.daily_rates, room))

\* C20: a listing whose room name is not in the catalog stays in the
\* recorded DailyRate, and the name is among the names the output prints:
\* those of the date's analysis or those of the summary.
C20_unknown_room_is_reported ==
    (Returned /\ load.outcome = "recorded") =>
        \A name \in ListedNames(returned.daily_rates[Len(returned.daily_rates)]) \ Catalog :
            \/ name \in load.analysis.missing
            \/ \E line \in returned.summary : line.room_name = name

(***************************************************************************)
(* extract_first_json_object on its own: it is called once on a text.      *)
(***************************************************************************)
\* prose without braces: empty, plain, with quotes, backslashes, white space
Prose ==
    { <<>>,
      <<"H","e","r","e"," ","i","s"," ","t","h","e"," ","d","a","t","a",":"," ">>,
      <<"H","e"," ","s","a","i","d"," ","\"","o","k","\"",":"," ">>,
      <<"a"," ","5","\""," ","d","i","s","k"," ">>,
      <<"C",":","\\","d","i","r","\\">>,
      <<"s","a","y"," ","\\","\""," ","x"," ">>,
      <<" "," ","\n">> }

\* balanced JSON objects: flat, nested, empty, and with strings that hold
\* braces, an escaped quote, an escaped backslash before the closing quote
Objects ==
    { <<"{","\"","a","\"",":","1","}">>,
      <<"{","\"","k","\"",":","\"","a","\\","\\","\"","}">>,
      <<"{","\"","k","\"",":","\"","\\","\\","\"",",","\"","b","\"",":","\"","}","\"","}">>,
      <<"{","\"","k","\"",":","\"","\\","\\","\\","\"","}","\"","}">>,
      <<"{","\"","a","\"",":","{","\"","b","\"",":","2","}","}">>,
      <<"{","\"","k","\"",":","\"","}","{","\"","}">>,
      <<"{","\"","k","\"",":","\"","a","\\","\"","b","\"","}">>,
      <<"{","}">> }

\* texts whose braces do not balance
UnbalancedTexts ==
    { <<"}"," ","{","\"","a","\"",":","1","}">>,
      <<"{"," ","{","\"","a","\"",":","1","}">>,
      <<"{","\"","a","\"",":","1","}"," ","}">>,
      <<"{","\"","a","\"",":","1","}"," ","{">>,
      <<"{","\"","a","\"",":","1">>,
      <<"{">>,
      <<"}","{">>,
      <<"}">> }

\* texts with no top-level object: empty, prose, an array, braces in a string
NoObjectTexts ==
    { <<>>,
      <<"n","o"," ","j","s","o","n"," ","h","e","r","e">>,
      <<"[","1",",","2","]">>,
      <<"\"","{","}","\"">> }

\* texts with a brace in a quoted word, an escaped quote or a stray closing
\* brace before the first object
QuotedBraceTexts ==
    { <<"\"","{","\""," ","{","\"","a","\"",":","1","}">>,
      <<"s","a","y"," ","\"","}","\""," ","{","\"","a","\"",":","{","\"","b","\"",":","2","}","}"," ","e","n","d">>,
      <<"\\","\""," ","{","\"","a","\"",":","1","}">>,
      <<"}"," ","\"","x","{","\""," ","{","\"","k","\"",":","\"","}","\"","}"," ","{","\"","b","\"",":","2","}">> }

Json_Init ==
    /\ raw_text \in { p \o o \o q : p \in Prose, o \in Objects, q \in Prose }
                      \cup UnbalancedTexts \cup NoObjectTexts \cup QuotedBraceTexts
    /\ extracted = NotCalled
    /\ SessionIdle
    /\ RunIdle
    /\ PlanIdle
    /\ DiscoveryIdle

CallExtract ==
    /\ ~extracted.called
    /\ extracted' = [called |-> TRUE, ret |-> extract_first_json_object(raw_text)]
    /\ UNCHANGED <<raw_text, sm_vars, run_vars, hist_vars, plan_vars, disc_vars>>

Json_Next == CallExtract

SpecJson == Json_Init /\ [][Json_Next]_vars

\* C15: for a text made of prose without braces, one balanced object and
\* prose without braces, the function returns exactly the object.
C15_object_between_prose_is_returned ==
    extracted.called =>
        \A p \in Prose, o \in Objects, q \in Prose :
            raw_text = p \o o \o q => extracted.ret = Some(o)

\* C16: for a text whose braces do not balance, for the empty text and for
\* a text without a top-level object the function returns None.
C16_unbalanced_text_gives_none ==
    (extracted.called /\ raw_text \in UnbalancedTexts \cup NoObjectTexts) =>
        extracted.ret = None

(***************************************************************************)
(* What a run records.                                                     *)
(***************************************************************************)
IsText(v) == DOMAIN v = 1..Len(v)

\* C17: every recorded DailyRate has an ISO-8601 date and listings that
\* are {name, price} texts, and a page load that did not end as recorded
\* leaves no DailyRate for its date.
C17_only_valid_rates_are_recorded ==
    /\ \A r \in 1..Len(all_daily_rates) :
          /\ DOMAIN all_daily_rates[r] = {"date", "listings"}
          /\ IsYmd(all_daily_rates[r].date)
          /\ \A i \in 1..Len(all_daily_rates[r].listings) :
                /\ DOMAIN all_daily_rates[r].listings[i] = {"name", "price"}
                /\ IsText(all_daily_rates[r].listings[i].name)
                /\ IsText(all_daily_rates[r].listings[i].price)
    /\ (Handling /\ load.outcome # "recorded") =>
          ~(\E r \in 1..Len(all_daily_rates) :
              all_daily_rates[r].date = urls_and_dates[load.idx].date)

(***************************************************************************)
(* discover_hotel_rooms.  Python compares and sorts strings by code point:  *)
(* code_points lists the printable ASCII characters in that order.         *)
(***************************************************************************)
code_points ==
    << " ","!","\"","#","$","%","&","'","(",")","*","+",",","-",".","/",
       "0","1","2","3","4","5","6","7","8","9",":",";","<","=",">","?",
       "@","A","B","C","D","E","F","G","H","I","J","K","L","M","N","O",
       "P","Q","R","S","T","U","V","W","X","Y","Z","[","\\","]","^","_",
       "a","b","c","d","e","f","g","h","i","j","k","l","m","n","o","p",
       "q","r","s","t","u","v","w","x","y","z","{","|","}","~" >>

ord(c) == CHOOSE i \in 1..Len(code_points) : code_points[i] = c

\* a < b for two strings
RECURSIVE str_lt(_, _)
str_lt(a, b) ==
    IF b = <<>> THEN FALSE
    ELSE IF a = <<>> THEN TRUE
    ELSE IF a[1] = b[1] THEN str_lt(Tail(a), Tail(b))
    ELSE ord(a[1]) < ord(b[1])

\* sorted(list(S)) for a set of strings
RECURSIVE sorted(_)
sorted(S) ==
    IF S = {} THEN <<>>
    ELSE LET least == CHOOSE x \in S : \A y \in S \ {x} : str_lt(x, y)
         IN  <<least>> \o sorted(S \ {least})

\* str(item) for a decoded item: a string is itself, a dict of strings is
\* its repr.
RECURSIVE py_repr_members(_)
py_repr_members(ms) ==
    IF ms = <<>> THEN <<>>
    ELSE <<"'">> \o ms[1].k \o <<"'", ":", " ", "'">> \o ms[1].val.v \o <<"'">>
           \o (IF Len(ms) > 1 THEN <<",", " ">> ELSE <<>>) \o py_repr_members(Tail(ms))

py_str(item) ==
    IF item.t = "str" THEN item.v ELSE <<"{">> \o py_repr_members(item.v) \o <<"}">>

\* The extraction's replies to a discovery sample, after the prompt's output
\* format: JSON arrays of names, and replies that are not such an array.
DiscoveryText(kind) ==
    CASE kind = "names_a"  -> <<"[","\"","D","o","u","b","l","e","\"",",","\"","S","u","i","t","e","\"","]">>
      [] kind = "names_b"  -> <<"[","\"","T","w","i","n","\"",",","\"","D","o","u","b","l","e","\"","]">>
      [] kind = "case"     -> <<"[","\"","s","u","i","t","e","\"",",","\"","S","u","i","t","e","\"","]">>
      [] kind = "repeat"   -> <<"[","\"","T","w","i","n","\"",",","\"","T","w","i","n","\"","]">>
      [] kind = "mixed"    -> <<"[","\"","T","w","i","n","\"",",","5",",","{","\"","n","a","m","e","\"",":","\"","S","u","i","t","e","\"","}","]">>
      [] kind = "wrapped"  -> <<"H","e","r","e"," ","a","r","e"," ","t","h","e"," ","r","o","o","m","s",":"," ","[","\"","T","w","i","n","\"","]">>
      [] kind = "object"   -> <<"{","\"","r","o","o","m","s","\"",":","[","\"","T","w","i","n","\"","]","}">>
      [] kind = "garbage"  -> <<"S","o","r","r","y",","," ","n","o"," ","r","o","o","m","s">>
      [] OTHER               -> <<>>

DiscoveryKinds ==
    { "names_a", "names_b", "case", "repeat", "mixed", "wrapped", "object", "garbage", "empty", "failed" }

DiscoveryReply(kind) ==
    [ success           |-> kind # "failed",
      extracted_content |-> DiscoveryText(kind),
      error_message     |-> IF kind = "failed" THEN "timeout" ELSE "" ]

\* Lines 189-196: the room names of a sample, None when the sample did not
\* load, has no content, is not decodable or is not a list.
current_sample_rooms(r) ==
    IF r.success /\ r.extracted_content # <<>>
    THEN LET room_list == json_loads(r.extracted_content)
         IN  IF room_list.ok /\ room_list.val.t = "arr"
             THEN Some({ py_str(room_list.val.v[i]) :
                         i \in { j \in 1..Len(room_list.val.v) :
                                   room_list.val.v[j].t \in {"str", "obj"} } })
             ELSE None
    ELSE None

\* discovered_rooms.update(current_sample_rooms)
update_replacing(discovered, current) == current

update(discovered, current) == discovered \cup current

MaxSamples == 3         \* num_days_to_check

Disc_Init ==
    /\ window \in [start : RunStart, count : 1..MaxSamples, interval : {7}]
    /\ plans = NoPlans
    /\ disc_pc = "loop"
    /\ sample_replies = <<>>
    /\ sample_no = 0
    /\ discovered_rooms = {}
    /\ profile = NoProfile
    /\ SessionIdle
    /\ RunIdle
    /\ JsonIdle

\* Lines 105-187: the next sample: its date and URL, the delay of 3..7 s
\* before every sample but the first, and the page load with its reply.
Disc_Sample ==
    /\ disc_pc = "loop"
    /\ sample_no < window.count
    /\ sample_no' = sample_no + 1
    /\ now' = now + (IF sample_no > 0 THEN 3 * TicksPerSecond ELSE 0)
    /\ \E kind \in DiscoveryKinds :
         sample_replies' = Append(sample_replies,
             [ kind   |-> kind,
               url    |-> discovery_sample(DefaultProfile.hotel_url, window.start, sample_no,
                                           window.interval).url,
               result |-> DiscoveryReply(kind) ])
    /\ disc_pc' = "handle"
    /\ UNCHANGED <<session, n_sessions, op, run_vars, hist_vars, plan_vars, json_vars,
                   discovered_rooms, profile>>

\* Line 187 when the browser collaborator raises: nothing catches it.
Disc_SampleRaises ==
    /\ disc_pc = "loop"
    /\ sample_no < window.count
    /\ sample_no' = sample_no + 1
    /\ now' = now + (IF sample_no > 0 THEN 3 * TicksPerSecond ELSE 0)
    /\ disc_pc' = "raised"
    /\ UNCHANGED <<session, n_sessions, op, run_vars, hist_vars, plan_vars, json_vars,
                   sample_replies, discovered_rooms, profile>>

\* Lines 189-212: the sample's names are added to the set; any other reply
\* is only printed.
Disc_Handle_resetting ==
    /\ disc_pc = "handle"
    /\ LET rooms == current_sample_rooms(sample_replies[sample_no].result)
       IN  discovered_rooms' = IF rooms.is_none THEN {}
                               ELSE update(discovered_rooms, rooms.value)
    /\ disc_pc' = "loop"
    /\ UNCHANGED <<sm_vars, run_vars, hist_vars, plan_vars, json_vars,
                   sample_replies, sample_no, profile>>

Disc_Handle ==
    /\ disc_pc = "handle"
    /\ LET rooms == current_sample_rooms(sample_replies[sample_no].result)
       IN  discovered_rooms' = IF rooms.is_none THEN discovered_rooms
                               ELSE update(discovered_rooms, rooms.value)
    /\ disc_pc' = "loop"
    /\ UNCHANGED <<sm_vars, run_vars, hist_vars, plan_vars, json_vars,
                   sample_replies, sample_no, profile>>

\* Lines 214-243: the profile is built, saved and returned.
Disc_Finish ==
    /\ disc_pc = "loop"
    /\ sample_no = window.count
    /\ profile' = [ built                  |-> TRUE,
                    room_types             |-> sorted(discovered_rooms),
                    total_rooms_discovered |-> Cardinality(discovered_rooms) ]
    /\ files' = write_file(files, <<"hotel_profile", DefaultProfile.hotel_name>>, profile')
    /\ disc_pc' = "done"
    /\ UNCHANGED <<sm_vars, pc, hotel_profile, start_date, num_days, urls_and_dates, idx,
                   all_daily_rates, result, browser_open, returned, hist_vars, plan_vars,
                   json_vars, sample_replies, sample_no, discovered_rooms>>

Disc_Next ==
    \/ Disc_Sample
    \/ Disc_SampleRaises
    \/ Disc_Handle
    \/ Disc_Finish

SpecDiscovery == Disc_Init /\ [][Disc_Next]_vars

\* the names each reply carries, and all of them in code point order
room_suite_lower == <<"s","u","i","t","e">>
room_dict_repr == <<"{","'","n","a","m","e","'",":"," ","'","S","u","i","t","e","'","}">>

NamesIn(kind) ==
    CASE kind = "names_a" -> {room_double, room_suite}
      [] kind = "names_b" -> {room_twin, room_double}
      [] kind = "case"    -> {room_suite_lower, room_suite}
      [] kind = "repeat"  -> {room_twin}
      [] kind = "mixed"   -> {room_twin, room_dict_repr}
      [] OTHER            -> {}

NamesInOrder == <<room_double, room_suite, room_twin, room_suite_lower, room_dict_repr>>

NamesSeen == UNION { NamesIn(sample_replies[k].kind) : k \in 1..Len(sample_replies) }

\* C18: the final room_types is the sorted, duplicate-free sequence of all
\* names of all parsed samples, names differing in case being different
\* names; it depends only on the set of names seen, so not on the order of
\* the samples nor on how often a name was seen.
C18_room_types_is_the_sorted_union ==
    disc_pc = "done" =>
        /\ { profile.room_types[i] : i \in 1..Len(profile.room_types) } = NamesSeen
        /\ Len(profile.room_types) = Cardinality(NamesSeen)
        /\ profile.total_rooms_discovered = Cardinality(NamesSeen)
        /\ \A i, j \in 1..Len(profile.room_types) :
              i < j => \E a, b \in 1..Len(NamesInOrder) :
                          /\ a < b
                          /\ NamesInOrder[a] = profile.room_types[i]
                          /\ NamesInOrder[b] = profile.room_types[j]

\* three samples, Double seen in two of them and Suite in two spellings
C18_union_of_three_samples ==
    /\ disc_pc = "done"
    /\ Len(sample_replies) = 3
    /\ sample_replies[1].kind = "names_b"
    /\ sample_replies[2].kind = "case"
    /\ sample_replies[3].kind = "names_a"
    /\ profile.room_types = <<room_double, room_suite, room_twin, room_suite_lower>>

(***************************************************************************)
(* The browser of a page load.                                             *)
(***************************************************************************)
\* C21: at most one browser is open at any time; one is open exactly while
\* a date's page load is issued or handled; and when a date begins, and
\* when its browser is started, every earlier page load has ended (handled
\* in one of the branches, or left by an exception) and its browser is closed.
C21_one_browser_one_date_at_a_time ==
    /\ browser_open \in {0, 1}
    /\ browser_open = 1 <=> pc \in {"arun", "handle"}
    /\ pc \in {"loop", "delay", "open", "arun"} =>
          /\ load.outcome \notin {"pending", "raised"}
          /\ load.idx = idx - 1 \/ (load.idx = 0 /\ idx = 1)
    /\ pc = "handle" => (load.outcome = "pending" /\ load.idx = idx)
    /\ pc \in {"done", "raised"} => browser_open = 0

\* the second date's browser is open after the first date left its block by
\* the `continue` of the CAPTCHA branch
C21_browser_reopened_after_captcha ==
    /\ pc = "arun"
    /\ idx = 2
    /\ load.idx = 1
    /\ load.outcome = "captcha"
    /\ browser_open = 1

(***************************************************************************)
(* The files of the failure branches.                                      *)
(***************************************************************************)
\* C22: after a successful page load whose text gave no validated
\* DailyRate (CAPTCHA text, undecodable text, JSON that is not an object, an
\* object that fails the schema) a file for the date holds that raw text.
C22_raw_text_kept_on_every_failure ==
    (Handling /\ result.success /\ result.extracted_content # <<>>
       /\ load.outcome # "recorded") =>
        \E f \in files :
            /\ f.name[2] = urls_and_dates[load.idx].date
            /\ f.content = result.extracted_content

\* C23: a page load that ends with a ValidationError is handled as one that
\* ends with a JSONDecodeError: in both cases the raw text is written to the
\* date's debug file and nothing else happens before the loop takes the next
\* date: no DailyRate is appended, the session is kept, no time is slept.
C23_validation_error_handled_as_parse_failure ==
    [][ (pc = "handle" /\ handled(result).outcome \in {"decode_error", "validation_error"}) =>
          /\ files' = write_file(files, <<"debug", urls_and_dates[idx].date>>,
                                 result.extracted_content)
          /\ all_daily_rates' = all_daily_rates
          /\ session' = session
          /\ n_sessions' = n_sessions
          /\ now' = now
          /\ idx' = idx + 1
          /\ pc' = "loop" ]_vars

\* the first date ended with a JSONDecodeError and the second with a
\* ValidationError; each has its debug file and no DailyRate was recorded
C23_both_errors_left_a_debug_file ==
    /\ Handling
    /\ prev_load.outcome = "decode_error"
    /\ load.outcome = "validation_error"
    /\ \A i \in 1..2 : \E f \in files : f.name = <<"debug", urls_and_dates[i].date>>
    /\ all_daily_rates = <<>>
    /\ n_sessions = 1

(***************************************************************************)
(* The texts discover_hotel_rooms decodes.                                 *)
(***************************************************************************)
\* C24: a sample whose reply is a well-formed JSON array of names with
\* prose around it has its names in the discovered set once it is handled.
C24_wrapped_sample_is_salvaged ==
    \A k \in 1..Len(sample_replies) :
        (sample_replies[k].kind = "wrapped" /\ (k < sample_no \/ disc_pc # "handle")) =>
            room_twin \in discovered_rooms

\* prose with no quote and no backslash in it
PlainProse == { p \in Prose : \A i \in 1..Len(p) : p[i] \notin {"\"", "\\"} }

\* C25: for a well-formed object whose strings hold braces, escaped quotes
\* or escaped backslashes, alone or between prose without quotes, the
\* function returns the whole object: a brace in a string does not count, an
\* escaped quote does not end the string, a backslash escapes one character.
C25_strings_and_escapes_are_scanned ==
    extracted.called =>
        \A p \in PlainProse, o \in Objects, q \in PlainProse :
            raw_text = p \o o \o q => extracted.ret = Some(o)

\* the object {"k":"\\\"}"} : an escaped backslash, an escaped quote and a
\* closing brace inside one string
C25_escaped_backslash_then_quote ==
    /\ extracted.called
    /\ raw_text = <<"{","\"","k","\"",":","\"","\\","\\","\\","\"","}","\"","}">>
    /\ extracted.ret = Some(raw_text)

(***************************************************************************)
(* The session between two rotations, and the ids of sessions.             *)
(***************************************************************************)
\* C26: should_rotate_session changes no field; increment_request adds one
\* to request_count and changes nothing else; in every step that is not a
\* rotate_session the id, the user agent, the viewport and the start time
\* stay as they are and request_count does not decrease.
C26_session_stable_between_rotations ==
    [][ /\ op'.name = "should_rotate_session" => session' = session
        /\ op'.name = "increment_request" =>
              session' = [session EXCEPT !.request_count = session.request_count + 1]
        /\ op'.name # "rotate_session" =>
              /\ session'.session_id = session.session_id
              /\ session'.user_agent = session.user_agent
              /\ session'.viewport = session.viewport
              /\ session'.start_time = session.start_time
              /\ session'.request_count >= session.request_count ]_vars

\* the third increment_request of a session that was created by a rotation
\* after the clock had moved
C26_third_request_of_a_rotated_session ==
    /\ op.name = "increment_request"
    /\ n_sessions = 2
    /\ session.start_time > 0
    /\ session.request_count = 3

\* C27: a rotation gives the session manager an id that differs from the id
\* it replaces, also when both sessions are created within one second.
C27_rotation_yields_a_new_id ==
    [][ n_sessions' = n_sessions + 1 => session'.session_id # session.session_id ]_vars

(***************************************************************************)
(* The CAPTCHA branch.                                                     *)
(***************************************************************************)
Before(seq, a, b) ==
    \E i, j \in 1..Len(seq) : i < j /\ seq[i] = a /\ seq[j] = b

\* C28: a successful page load whose text holds a CAPTCHA indicator ends in
\* the CAPTCHA branch, also when the text is a valid DailyRate: the page is
\* saved, then the session is rotated, then at least 30 s are slept (the new
\* session is as old as the sleep), and no DailyRate of the date is recorded.
C28_captcha_saved_rotated_delayed_not_parsed ==
    (Handling /\ result.success /\ result.extracted_content # <<>>
       /\ has_captcha(result.extracted_content)) =>
        /\ load.outcome = "captcha"
        /\ \E f \in files :
              /\ f.name = <<"captcha_page", urls_and_dates[load.idx].date>>
              /\ f.content = result.extracted_content
        /\ Before(load.output, "CAPTCHA page saved", "Rotating session")
        /\ Before(load.output, "Rotating session", "Waiting")
        /\ n_sessions = load.gen + 1
        /\ session.request_count = 0
        /\ now - session.start_time >= 30 * TicksPerSecond
        /\ ~(\E r \in 1..Len(all_daily_rates) :
               all_daily_rates[r].date = urls_and_dates[load.idx].date)

\* the first date's reply is a valid DailyRate with a room named Captcha
\* Suite; it was handled as a CAPTCHA and nothing was recorded
C28_valid_rate_with_captcha_word ==
    /\ Handling
    /\ load.idx = 1
    /\ load.outcome = "captcha"
    /\ result.extracted_content = ReplyText("captcha_room", urls_and_dates[1].date)
    /\ all_daily_rates = <<>>
    /\ n_sessions = 2

(***************************************************************************)
(* The sleeps of a run.                                                    *)
(***************************************************************************)
\* C29: nothing is slept between the rotation check and the browser start
\* of the first date, at least 8 s before every later date; the CAPTCHA
\* branch sleeps between 30 and 60 s and the failure branch between 5 and
\* 10 s, in total.
C29_delays_within_their_bounds ==
    [][ /\ (pc = "delay" /\ idx = 1) => now' = now
        /\ (pc = "delay" /\ idx > 1) => now' - now >= 8 * TicksPerSecond
        /\ (pc = "handle" /\ handled(result).outcome = "captcha") =>
              (now' - now) \in (30 * TicksPerSecond)..(60 * TicksPerSecond)
        /\ (pc = "handle" /\ handled(result).outcome = "failed") =>
              (now' - now) \in (5 * TicksPerSecond)..(10 * TicksPerSecond) ]_vars

(***************************************************************************)
(* The list of recorded DailyRates.                                        *)
(***************************************************************************)
\* the places of a date in the plan
PlanIndex(d) == { k \in 1..Len(urls_and_dates) : urls_and_dates[k].date = d }

\* C30: the recorded list never has more entries than dates have been
\* completed, so never more than are planned; entries that carry planned
\* dates carry them in the order of the plan, each date at most once; a step
\* either leaves the list as it is or appends, at the end of a date's
\* handling, the one DailyRate validated from that date's reply.
C30_one_rate_per_date_append_only ==
    /\ [](/\ Len(all_daily_rates) <= idx - 1
          /\ idx - 1 <= num_days
          /\ \A r1, r2 \in 1..Len(all_daily_rates) :
                r1 < r2 => \A k1 \in PlanIndex(all_daily_rates[r1].date),
                              k2 \in PlanIndex(all_daily_rates[r2].date) : k1 < k2)
    /\ [][ \/ all_daily_rates' = all_daily_rates
           \/ /\ pc = "handle"
              /\ handled(result).outcome = "recorded"
              /\ idx' = idx + 1
              /\ all_daily_rates' = all_daily_rates \o <<handled(result).validated>> ]_vars

\* the first date was recorded, the second one failed, and the list still
\* holds the first date's DailyRate alone
C30_first_rate_kept_after_a_failure ==
    /\ pc = "loop"
    /\ idx = 3
    /\ load.outcome = "failed"
    /\ prev_load.outcome = "recorded"
    /\ Len(all_daily_rates) = 1
    /\ all_daily_rates[1].date = urls_and_dates[1].date
    /\ Len(all_daily_rates[1].listings) = 3

(***************************************************************************)
(* The dates of the recorded DailyRates.                                   *)
(***************************************************************************)
\* C31: the DailyRate a page load recorded carries the check-in date of the
\* URL that was loaded, so the recorded dates are dates of the plan and no
\* two of them are equal.
C31_recorded_date_is_the_planned_date ==
    /\ JustRecorded => LastRate.date = urls_and_dates[load.idx].date
    /\ \A r \in 1..Len(all_daily_rates) : PlanIndex(all_daily_rates[r].date) # {}
    /\ \A r1, r2 \in 1..Len(all_daily_rates) :
          r1 # r2 => all_daily_rates[r1].date # all_daily_rates[r2].date

(***************************************************************************)
(* What extract_first_json_object returns, against a scan of the text for  *)
(* its string literals.                                                    *)
(***************************************************************************)
\* after the characters 1..i of s: whether a string literal is open, and
\* whether character i is a backslash that escapes character i + 1
RECURSIVE LexState(_, _)
LexState(s, i) ==
    IF i = 0 THEN [in_string |-> FALSE, escape |-> FALSE]
    ELSE LET before == LexState(s, i - 1)
         IN  IF before.escape THEN [before EXCEPT !.escape = FALSE]
             ELSE IF s[i] = "\\" THEN [before EXCEPT !.escape = TRUE]
             ELSE IF s[i] = "\"" THEN [before EXCEPT !.in_string = ~before.in_string]
             ELSE before

OutsideString(s, i) == ~LexState(s, i - 1).in_string

\* the braces open after the characters a..i of s, counting from a
Depth(s, a, i) ==
    Cardinality({ j \in a..i : s[j] = "{" /\ OutsideString(s, j) })
      - Cardinality({ j \in a..i : s[j] = "}" /\ OutsideString(s, j) })

\* C32: a value the function returns is the part of the stripped text from
\* its first "{" outside a string literal to a "}" outside a string literal
\* at which the braces opened since that "{" are all closed, for the first
\* time.
C32_result_is_first_balanced_object ==
    (extracted.called /\ ~extracted.ret.is_none) =>
        LET s     == strip(raw_text)
            v     == extracted.ret.value
            Opens == { i \in 1..Len(s) : s[i] = "{" /\ OutsideString(s, i) }
        IN  /\ Opens # {}
            /\ LET a == Min(Opens)
                   b == a + Len(v) - 1
               IN  /\ b <= Len(s)
                   /\ v = SubSeq(s, a, b)
                   /\ v[1] = "{"
                   /\ v[Len(v)] = "}"
                   /\ OutsideString(s, b)
                   /\ Depth(s, a, b) = 0
                   /\ \A i \in a..(b - 1) : Depth(s, a, i) > 0

\* the text  } "x{" {"k":"}"} {"b":2} : a stray brace, a brace in a quoted
\* word, and two objects of which the first is returned
C32_first_object_after_quoted_brace ==
    /\ extracted.called
    /\ raw_text = <<"}"," ","\"","x","{","\""," ","{","\"","k","\"",":","\"","}","\"","}"," ","{","\"","b","\"",":","2","}">>
    /\ extracted.ret = Some(<<"{","\"","k","\"",":","\"","}","\"","}">>)

(***************************************************************************)
(* Replies that hold a DailyRate.                                          *)
(***************************************************************************)
\* the replies whose text holds a JSON object with a string `date` and a
\* list `listings` of {name, price} strings
RateKinds ==
    { "full", "prose", "blocks", "partial", "robot_room", "duplicate", "extra", "bad_date",
      "captcha_room" }

\* C33: a successful page load whose text holds an object that satisfies
\* the DailyRate schema ends with that DailyRate appended to the recorded
\* list, whatever its room names and prices are.
C33_every_valid_rate_is_recorded ==
    \A kind \in RateKinds :
        (Handling /\ result = Reply(kind, urls_and_dates[load.idx].date)) =>
            /\ load.outcome = "recorded"
            /\ all_daily_rates # <<>>
            /\ Len(LastRate.listings) > 0

(***************************************************************************)
(* The discovered set, sample by sample.                                   *)
(***************************************************************************)
\* the replies that are no list of names: not loaded, no content, not
\* decodable, decodable but not a list
FailingKinds == { "failed", "empty", "garbage", "wrapped", "object" }

\* C34: no step takes a name out of the discovered set; handling a sample
\* that is no list of names leaves the set as it is and the loop goes on;
\* the function returns after all num_days_to_check samples, with a profile
\* that holds every name of every parsed sample and whose
\* total_rooms_discovered is the length of room_types.
C34_discovered_set_only_grows ==
    /\ [][ /\ discovered_rooms \subseteq discovered_rooms'
           /\ (disc_pc = "handle" /\ sample_replies[sample_no].kind \in FailingKinds) =>
                 /\ discovered_rooms' = discovered_rooms
                 /\ disc_pc' = "loop"
                 /\ sample_no' = sample_no ]_vars
    /\ [](disc_pc = "done" =>
            /\ sample_no = window.count
            /\ Len(sample_replies) = window.count
            /\ NamesSeen \subseteq { profile.room_types[i] : i \in 1..Len(profile.room_types) }
            /\ profile.total_rooms_discovered = Len(profile.room_types))

\* three samples: the first gave Double and Suite, the second did not load,
\* the third was an object and not a list; the profile has the two names
C34_two_failures_after_a_parsed_sample ==
    /\ disc_pc = "done"
    /\ Len(sample_replies) = 3
    /\ sample_replies[1].kind = "names_a"
    /\ sample_replies[2].kind = "failed"
    /\ sample_replies[3].kind = "object"
    /\ profile.room_types = <<room_double, room_suite>>
    /\ profile.total_rooms_discovered = 2

====
